---- MODULE Spec2Model ----
(***************************************************************************)
(* NEVERHANG reliability layer of pfsense-mcp (src/src/index.ts):          *)
(* CircuitBreaker with its persisted record, HealthMonitor with its        *)
(* self-rescheduling background probe loop, AdaptiveTimeout, and           *)
(* executeTool with the NeverhangManager that ties them together.          *)
(*                                                                         *)
(* Time is the value of Date.now(), counted in clock units; the breaker    *)
(* durations of the configuration are given in the same units.             *)
(*                                                                         *)
(* The specifications share the variables: Spec (the breaker called       *)
(* directly) and SpecLive (the same, with callers that keep calling),      *)
(* SpecHealth (the monitor and its loop), SpecP95 (the latency window),    *)
(* SpecTimeout (getTimeout on every configuration), SpecExec (concurrent   *)
(* executeTool calls) and SpecErr (executeTool by the error it ends with). *)
(***************************************************************************)
EXTENDS Integers, Sequences, FiniteSets, TLC

\* ------------------------------------------------------------------------
\* Configuration (NeverhangConfig), scaled to clock units, and model bounds
\* ------------------------------------------------------------------------
circuit_failure_threshold == 3
circuit_failure_window_ms == 3
circuit_open_duration_ms == 2
circuit_recovery_threshold == 2

\* Date.now() never exceeds MaxTime in the model.
MaxTime == 7
\* recordFailure is not taken once the failure list holds MaxFail entries.
MaxFail == 4

\* the probe loop is not started while MaxLoops loops exist
MaxLoops == 2
\* a probe outcome is not recorded once its consecutive counter is MaxConsec
MaxConsec == 4

\* HealthMonitor: delay of the first probe, and the intervals of the config
InitialDelay == 5000
health_check_interval_ms == 30000
health_degraded_interval_ms == 5000
\* HealthMonitor keeps the last MaxSamples latencies
MaxSamples == 10

\* null of a Date | null or number | null field; Date.now() is never 0.
Null == 0
\* an optional argument that is not passed; no timeout is negative
Undefined == -1

\* AdaptiveTimeout: the timeout fields of DEFAULT_NEVERHANG_CONFIG
base_timeout_ms == 10000
min_timeout_ms == 2000
max_timeout_ms == 60000
\* the configurations the timeout is computed for hold values up to MaxMs
MaxMs == 4

\* PfSenseClient: the timeout of request() when none is passed, and the one
\* ping() passes
DefaultRequestTimeout == 10000
PingRequestTimeout == 5000
\* the manager counts MaxCalls calls at most
MaxCalls == 4
\* Date.now() never exceeds MaxExecTime while tool calls are modelled
MaxExecTime == 3

VARIABLES
    now,        \* Date.now()
    hasDb,      \* whether the breaker was constructed with a store
    cb,         \* CircuitBreaker.state (CircuitBreakerState)
    db,         \* the store's single circuit-state record
    op,         \* the breaker operation called last
    first,      \* whether that operation was the first one on its instance
    allowed,    \* what the last canExecute() returned
    hoSucc,     \* successes reported since the breaker last became half-open
    lastClosedFail, \* when recordFailure() last ran on a closed breaker
    health,     \* HealthMonitor.state: status and consecutive counters
    hmeta,      \* HealthMonitor.state: timestamps and latency samples
    loop,       \* intervalId, the timers setTimeout has pending, and the
                \* background checks waiting for their ping
    hop,        \* the HealthMonitor operation that ran last
    running,    \* start() was called and stop() has not been since
    succRun,    \* successful probes since the last failed one
    dipped,     \* some probe has failed
    p95,        \* what the last getLatencyP95() returned
    tcfg,       \* AdaptiveTimeout.config (the timeout fields)
    ttool,      \* the tool name getTimeout() is asked about
    tres,       \* the last call of getTimeout(): its arguments and result
    tasks,      \* the executeTool() calls: where each one stands
    totalCalls,       \* NeverhangManager.totalCalls
    successfulCalls,  \* NeverhangManager.successfulCalls
    metrics,    \* rows recordApiCall has written to the store
    serial,     \* the breaker operations applied one at a time, in the
                \* order in which they took effect
    xop         \* the step of executeTool() that ran last

breakerVars == <<now, hasDb, cb, db, op, first, allowed, hoSucc,
                 lastClosedFail>>

healthVars == <<health, hmeta, loop, hop, running, succRun, dipped, p95>>

timeoutVars == <<tcfg, ttool, tres>>

execVars == <<tasks, totalCalls, successfulCalls, metrics, serial, xop>>

vars == <<now, hasDb, cb, db, op, first, allowed, hoSucc, lastClosedFail,
          health, hmeta, loop, hop, running, succRun, dipped, p95,
          tcfg, ttool, tres,
          tasks, totalCalls, successfulCalls, metrics, serial, xop>>

\* what the breaker operations, called on their own, leave alone
besideBreaker == <<healthVars, timeoutVars, execVars>>

\* what the monitor operations, called on their own, leave alone
besideHealth == <<breakerVars, timeoutVars, execVars>>

\* ------------------------------------------------------------------------
\* Persistent store: the single circuit-state record (db.ts is not part of
\* the sources; modelled from the specification, section 4.4)
\* ------------------------------------------------------------------------
DefaultCircuitRecord ==
    [state |-> "closed", failure_count |-> 0, last_failure_at |-> Null,
     opened_at |-> Null, recovery_successes |-> 0]

loadCircuitState(d) == d

saveCircuitState(d, rec) == rec

\* ------------------------------------------------------------------------
\* CircuitBreaker
\* ------------------------------------------------------------------------
FreshCircuitState ==
    [state |-> "closed", failures |-> <<>>, opened_at |-> Null,
     half_open_successes |-> 0]

\* Array(n).fill(v)
ArrayFill(n, v) == [i \in 1..n |-> v]

\* CircuitFromSaved losing the saved opening time
CircuitFromSaved_noOpenedAt(saved) ==
    [state |-> IF saved.state = "half_open" THEN "half-open" ELSE saved.state,
     failures |-> IF saved.failure_count > 0 /\ saved.last_failure_at # Null
                  THEN ArrayFill(saved.failure_count, saved.last_failure_at)
                  ELSE <<>>,
     opened_at |-> Null,
     half_open_successes |-> saved.recovery_successes]

\* constructor, with a store: the state is rebuilt from the saved record
CircuitFromSaved(saved) ==
    [state |-> IF saved.state = "half_open" THEN "half-open" ELSE saved.state,
     failures |-> IF saved.failure_count > 0 /\ saved.last_failure_at # Null
                  THEN ArrayFill(saved.failure_count, saved.last_failure_at)
                  ELSE <<>>,
     opened_at |-> IF saved.opened_at # Null THEN saved.opened_at ELSE Null,
     half_open_successes |-> saved.recovery_successes]

CircuitConstructor(withDb, d) ==
    IF withDb THEN CircuitFromSaved(loadCircuitState(d)) ELSE FreshCircuitState

\* the record persistState hands to saveCircuitState
CircuitRecord(c) ==
    [state |-> IF c.state = "half-open" THEN "half_open" ELSE c.state,
     failure_count |-> Len(c.failures),
     last_failure_at |-> IF Len(c.failures) > 0
                         THEN c.failures[Len(c.failures)] ELSE Null,
     opened_at |-> c.opened_at,
     recovery_successes |-> c.half_open_successes]

persistState(withDb, d, c) ==
    IF ~withDb THEN d ELSE saveCircuitState(d, CircuitRecord(c))

\* cleanOldFailures purging nothing
cleanOldFailures_keepAll(c, t) == c

\* cleanOldFailures(): keeps the timestamps after the cutoff
cleanOldFailures(c, t) ==
    LET cutoff == t - circuit_failure_window_ms
    IN  [c EXCEPT !.failures = SelectSeq(c.failures, LAMBDA x : x > cutoff)]

\* canExecute admitting only strictly after the open duration
canExecute_strict(c, t) ==
    LET c1 == cleanOldFailures(c, t)
    IN  CASE c1.state = "closed" -> [cb |-> c1, allowed |-> TRUE]
          [] c1.state = "open" ->
                IF c1.opened_at # Null
                   /\ t - c1.opened_at > circuit_open_duration_ms
                THEN [cb |-> [c1 EXCEPT !.state = "half-open",
                                        !.half_open_successes = 0],
                      allowed |-> TRUE]
                ELSE [cb |-> c1, allowed |-> FALSE]
          [] c1.state = "half-open" -> [cb |-> c1, allowed |-> TRUE]

\* canExecute: the new state and the boolean returned
canExecute(c, t) ==
    LET c1 == cleanOldFailures(c, t)
    IN  CASE c1.state = "closed" -> [cb |-> c1, allowed |-> TRUE]
          [] c1.state = "open" ->
                IF c1.opened_at # Null
                   /\ t - c1.opened_at >= circuit_open_duration_ms
                THEN [cb |-> [c1 EXCEPT !.state = "half-open",
                                        !.half_open_successes = 0],
                      allowed |-> TRUE]
                ELSE [cb |-> c1, allowed |-> FALSE]
          [] c1.state = "half-open" -> [cb |-> c1, allowed |-> TRUE]

\* recordSuccess closing without writing the record
recordSuccess_noPersist(c) ==
    IF c.state = "half-open"
    THEN LET n == c.half_open_successes + 1
         IN  IF n >= circuit_recovery_threshold
             THEN [cb |-> [c EXCEPT !.state = "closed", !.failures = <<>>,
                                    !.opened_at = Null,
                                    !.half_open_successes = n],
                   persist |-> FALSE]
             ELSE [cb |-> [c EXCEPT !.half_open_successes = n],
                   persist |-> FALSE]
    ELSE [cb |-> c, persist |-> FALSE]

\* recordSuccess closing without clearing the failure history
recordSuccess_keepFailures(c) ==
    IF c.state = "half-open"
    THEN LET n == c.half_open_successes + 1
         IN  IF n >= circuit_recovery_threshold
             THEN [cb |-> [c EXCEPT !.state = "closed", !.opened_at = Null,
                                    !.half_open_successes = n],
                   persist |-> TRUE]
             ELSE [cb |-> [c EXCEPT !.half_open_successes = n],
                   persist |-> FALSE]
    ELSE [cb |-> c, persist |-> FALSE]

\* recordSuccess: the new state and whether persistState is called
recordSuccess(c) ==
    IF c.state = "half-open"
    THEN LET n == c.half_open_successes + 1
         IN  IF n >= circuit_recovery_threshold
             THEN [cb |-> [state |-> "closed", failures |-> <<>>,
                           opened_at |-> Null, half_open_successes |-> n],
                   persist |-> TRUE]
             ELSE [cb |-> [c EXCEPT !.half_open_successes = n],
                   persist |-> FALSE]
    ELSE [cb |-> c, persist |-> FALSE]

\* recordFailure opening the breaker without setting opened_at
recordFailure_noOpenedAt(c, t) ==
    LET c1 == cleanOldFailures([c EXCEPT !.failures = Append(@, t)], t)
    IN  CASE c1.state = "half-open" ->
                [cb |-> [c1 EXCEPT !.state = "open", !.opened_at = t],
                 persist |-> TRUE]
          [] c1.state = "closed" ->
                IF Len(c1.failures) >= circuit_failure_threshold
                THEN [cb |-> [c1 EXCEPT !.state = "open"], persist |-> TRUE]
                ELSE [cb |-> c1, persist |-> FALSE]
          [] OTHER -> [cb |-> c1, persist |-> FALSE]

\* recordFailure opening only above the threshold
recordFailure_above(c, t) ==
    LET c1 == cleanOldFailures([c EXCEPT !.failures = Append(@, t)], t)
    IN  CASE c1.state = "half-open" ->
                [cb |-> [c1 EXCEPT !.state = "open", !.opened_at = t],
                 persist |-> TRUE]
          [] c1.state = "closed" ->
                IF Len(c1.failures) > circuit_failure_threshold
                THEN [cb |-> [c1 EXCEPT !.state = "open", !.opened_at = t],
                      persist |-> TRUE]
                ELSE [cb |-> c1, persist |-> FALSE]
          [] OTHER -> [cb |-> c1, persist |-> FALSE]

\* recordFailure reopening from half-open with the old opening time
recordFailure_staleOpenedAt(c, t) ==
    LET c1 == cleanOldFailures([c EXCEPT !.failures = Append(@, t)], t)
    IN  CASE c1.state = "half-open" ->
                [cb |-> [c1 EXCEPT !.state = "open"], persist |-> TRUE]
          [] c1.state = "closed" ->
                IF Len(c1.failures) >= circuit_failure_threshold
                THEN [cb |-> [c1 EXCEPT !.state = "open", !.opened_at = t],
                      persist |-> TRUE]
                ELSE [cb |-> c1, persist |-> FALSE]
          [] OTHER -> [cb |-> c1, persist |-> FALSE]

\* recordFailure(false): the new state and whether persistState is called
recordFailure(c, t) ==
    LET c1 == cleanOldFailures([c EXCEPT !.failures = Append(@, t)], t)
    IN  CASE c1.state = "half-open" ->
                [cb |-> [c1 EXCEPT !.state = "open", !.opened_at = t],
                 persist |-> TRUE]
          [] c1.state = "closed" ->
                IF Len(c1.failures) >= circuit_failure_threshold
                THEN [cb |-> [c1 EXCEPT !.state = "open", !.opened_at = t],
                      persist |-> TRUE]
                ELSE [cb |-> c1, persist |-> FALSE]
          [] OTHER -> [cb |-> c1, persist |-> FALSE]

\* ------------------------------------------------------------------------
\* HealthMonitor
\* ------------------------------------------------------------------------
InitialHealthState ==
    [status |-> "healthy", consecutive_failures |-> 0,
     consecutive_successes |-> 0]

\* recordSuccess of the monitor leaving degraded one success early
HealthRecordSuccess_early(h) ==
    LET n == h.consecutive_successes + 1
    IN  [status |-> IF h.status = "unhealthy" /\ n >= 1 THEN "degraded"
                    ELSE IF h.status = "degraded" /\ n >= 2 THEN "healthy"
                    ELSE h.status,
         consecutive_failures |-> 0,
         consecutive_successes |-> n]

\* recordSuccess of the monitor: counters, then the status transition
HealthRecordSuccess(h) ==
    LET n == h.consecutive_successes + 1
    IN  [status |-> IF h.status = "unhealthy" /\ n >= 1 THEN "degraded"
                    ELSE IF h.status = "degraded" /\ n >= 3 THEN "healthy"
                    ELSE h.status,
         consecutive_failures |-> 0,
         consecutive_successes |-> n]

\* recordFailure of the monitor with the two transitions in sequence (two
\* ifs instead of if / else if) and the second one taken at the first failure
HealthRecordFailure_fallThrough(h) ==
    LET n == h.consecutive_failures + 1
        s1 == IF h.status = "healthy" /\ n >= 1 THEN "degraded" ELSE h.status
    IN  [status |-> IF s1 = "degraded" /\ n >= 1 THEN "unhealthy" ELSE s1,
         consecutive_failures |-> n,
         consecutive_successes |-> 0]

\* recordFailure of the monitor: counters, then the status transition
HealthRecordFailure(h) ==
    LET n == h.consecutive_failures + 1
    IN  [status |-> IF h.status = "healthy" /\ n >= 1 THEN "degraded"
                    ELSE IF h.status = "degraded" /\ n >= 3 THEN "unhealthy"
                    ELSE h.status,
         consecutive_failures |-> n,
         consecutive_successes |-> 0]

\* ping(): the outcome of pingFn is recorded when it settles
HealthPing(h, ok) == IF ok THEN HealthRecordSuccess(h) ELSE HealthRecordFailure(h)

\* the timestamps and latency samples of HealthState
InitialHealthMeta ==
    [last_check |-> Null, last_success |-> Null, last_failure |-> Null,
     latency_ms |-> 0, latency_samples |-> <<>>]

\* recordSuccess of the monitor: timestamps, and the latency pushed onto the
\* samples, the oldest one shifted out beyond MaxSamples
HealthStampSuccess(m, latency, t) ==
    LET pushed == Append(m.latency_samples, latency)
    IN  [m EXCEPT !.last_check = t, !.last_success = t,
                  !.latency_ms = latency,
                  !.latency_samples = IF Len(pushed) > MaxSamples
                                      THEN Tail(pushed) ELSE pushed]

\* recordFailure of the monitor: timestamps only
HealthStampFailure(m, t) == [m EXCEPT !.last_check = t, !.last_failure = t]

HealthStamp(m, ok, latency, t) ==
    IF ok THEN HealthStampSuccess(m, latency, t) ELSE HealthStampFailure(m, t)

\* [...samples].sort((a, b) => a - b)
RECURSIVE Insert(_, _)
Insert(x, s) ==
    IF s = <<>> THEN <<x>>
    ELSE IF x <= Head(s) THEN <<x>> \o s
    ELSE <<Head(s)>> \o Insert(x, Tail(s))

RECURSIVE SortAscending(_)
SortAscending(s) ==
    IF s = <<>> THEN <<>> ELSE Insert(Head(s), SortAscending(Tail(s)))

\* getLatencyP95 taking the middle of the sorted samples
getLatencyP95_median(samples) ==
    IF Len(samples) = 0 THEN 0
    ELSE LET sorted == SortAscending(samples)
             idx == Len(sorted) \div 2
         IN  sorted[(IF idx < Len(sorted) - 1 THEN idx ELSE Len(sorted) - 1) + 1]

\* getLatencyP95(): Math.floor(length * 0.95) is (length * 95) \div 100 for
\* the lengths a window has; sequences are indexed from 1
getLatencyP95(samples) ==
    IF Len(samples) = 0 THEN 0
    ELSE LET sorted == SortAscending(samples)
             idx == (Len(sorted) * 95) \div 100
         IN  sorted[(IF idx < Len(sorted) - 1 THEN idx ELSE Len(sorted) - 1) + 1]

InitialLoop == [intervalId |-> Null, timers |-> {}, probes |-> 0]

\* the handles in use: pending timers and the one intervalId holds
LiveIds(l) == {t.id : t \in l.timers} \cup ({l.intervalId} \ {Null})

\* setTimeout(check, delay): a new handle, pending
SetTimeout(l, delay) ==
    LET id == CHOOSE i \in 1..(Cardinality(LiveIds(l)) + 1) : i \notin LiveIds(l)
    IN  [l EXCEPT !.timers = @ \cup {[id |-> id, delay |-> delay]},
                  !.intervalId = id]

\* clearTimeout(id): the timer no longer fires; nothing for a fired one
ClearTimeout(l, id) == [l EXCEPT !.timers = {t \in @ : t.id # id}]

startBackgroundCheck(l) ==
    IF l.intervalId # Null THEN l ELSE SetTimeout(l, InitialDelay)

stopBackgroundCheck(l) ==
    IF l.intervalId # Null
    THEN [ClearTimeout(l, l.intervalId) EXCEPT !.intervalId = Null]
    ELSE l

\* check(), after its ping: the next timer, by the status the ping left
CheckRearm(l, h) ==
    SetTimeout([l EXCEPT !.probes = @ - 1],
               IF h.status = "healthy" THEN health_check_interval_ms
               ELSE health_degraded_interval_ms)

\* ------------------------------------------------------------------------
\* AdaptiveTimeout
\* ------------------------------------------------------------------------
\* Tool names are sequences of characters, so that String.includes() is
\* computed on them.
pf_health ==
    <<"p", "f", "_", "h", "e", "a", "l", "t", "h">>
pf_system_info ==
    <<"p", "f", "_", "s", "y", "s", "t", "e", "m", "_", "i", "n", "f", "o">>
pf_interface_restart ==
    <<"p", "f", "_", "i", "n", "t", "e", "r", "f", "a", "c", "e", "_", "r", "e", "s", "t", "a", "r", "t">>
pf_interface_mode ==
    <<"p", "f", "_", "i", "n", "t", "e", "r", "f", "a", "c", "e", "_", "m", "o", "d", "e">>
pf_firewall_add ==
    <<"p", "f", "_", "f", "i", "r", "e", "w", "a", "l", "l", "_", "a", "d", "d">>
pf_firewall_rules ==
    <<"p", "f", "_", "f", "i", "r", "e", "w", "a", "l", "l", "_", "r", "u", "l", "e", "s">>
pf_alias_delete ==
    <<"p", "f", "_", "a", "l", "i", "a", "s", "_", "d", "e", "l", "e", "t", "e">>
pf_system_reboot ==
    <<"p", "f", "_", "s", "y", "s", "t", "e", "m", "_", "r", "e", "b", "o", "o", "t">>
pf_dhcp_config ==
    <<"p", "f", "_", "d", "h", "c", "p", "_", "c", "o", "n", "f", "i", "g">>
pf_bogus ==
    <<"p", "f", "_", "b", "o", "g", "u", "s">>
pf_interface_status ==
    <<"p", "f", "_", "i", "n", "t", "e", "r", "f", "a", "c", "e", "_", "s", "t", "a", "t", "u", "s">>

ToolNames ==
    {pf_health, pf_system_info, pf_interface_restart, pf_interface_mode, pf_firewall_add,
     pf_firewall_rules, pf_alias_delete, pf_system_reboot, pf_dhcp_config, pf_bogus}

\* toolName.includes(pat)
Includes(s, pat) ==
    \E i \in 1..(Len(s) - Len(pat) + 1) : SubSeq(s, i, i + Len(pat) - 1) = pat

\* classifyOperation(toolName): the first test that matches decides
classifyOperation(toolName) ==
    IF \/ Includes(toolName, <<"_", "i", "n", "f", "o">>)
       \/ Includes(toolName, <<"_", "s", "t", "a", "t", "u", "s">>)
       \/ Includes(toolName, <<"_", "l", "i", "s", "t">>)
       \/ Includes(toolName, <<"_", "l", "e", "a", "s", "e", "s">>)
       \/ Includes(toolName, <<"_", "l", "o", "g", "s">>)
       \/ toolName = pf_health
    THEN "simple"
    ELSE IF Includes(toolName, <<"i", "n", "t", "e", "r", "f", "a", "c", "e">>)
    THEN IF \/ Includes(toolName, <<"r", "e", "s", "t", "a", "r", "t">>)
            \/ Includes(toolName, <<"e", "n", "a", "b", "l", "e">>)
            \/ Includes(toolName, <<"d", "i", "s", "a", "b", "l", "e">>)
         THEN "interface" ELSE "simple"
    ELSE IF \/ Includes(toolName, <<"f", "i", "r", "e", "w", "a", "l", "l">>)
            \/ Includes(toolName, <<"n", "a", "t">>)
            \/ Includes(toolName, <<"a", "l", "i", "a", "s">>)
    THEN IF \/ Includes(toolName, <<"a", "d", "d">>)
            \/ Includes(toolName, <<"d", "e", "l", "e", "t", "e">>)
            \/ Includes(toolName, <<"m", "o", "d", "i", "f", "y">>)
         THEN "firewall" ELSE "simple"
    ELSE IF \/ Includes(toolName, <<"r", "e", "b", "o", "o", "t">>)
            \/ Includes(toolName, <<"s", "h", "u", "t", "d", "o", "w", "n">>)
            \/ Includes(toolName, <<"p", "a", "c", "k", "a", "g", "e", "s">>)
            \/ Includes(toolName, <<"b", "a", "c", "k", "u", "p">>)
    THEN "dangerous"
    ELSE IF \/ Includes(toolName, <<"_", "c", "o", "n", "f", "i", "g">>)
            \/ Includes(toolName, <<"_", "a", "d", "d">>)
            \/ Includes(toolName, <<"_", "d", "e", "l", "e", "t", "e">>)
            \/ Includes(toolName, <<"_", "m", "o", "d", "i", "f", "y">>)
    THEN "config"
    ELSE "simple"

HealthStatuses == {"healthy", "degraded", "unhealthy"}

\* the timeout fields of DEFAULT_NEVERHANG_CONFIG
DefaultTimeoutConfig ==
    [base_timeout_ms |-> base_timeout_ms, min_timeout_ms |-> min_timeout_ms,
     max_timeout_ms |-> max_timeout_ms, adaptive_timeout |-> TRUE]

Min(a, b) == IF a <= b THEN a ELSE b

Max(a, b) == IF a >= b THEN a ELSE b

\* Math.min(Math.max(x, lo), hi)
Clamp(x, lo, hi) == Min(Max(x, lo), hi)

\* Math.round(n / d) for n >= 0 and d > 0: halves round up
MathRound(n, d) == (2 * n + d) \div (2 * d)

\* the complexity multiplier with dangerous operations given 0.6x, in halves
ComplexityHalves_dangerousShort(complexity) ==
    CASE complexity = "simple" -> 2
      [] complexity = "interface" -> 4
      [] complexity = "firewall" -> 3
      [] complexity = "config" -> 4
      [] complexity = "dangerous" -> 1

\* the complexity multiplier, in halves: 1, 2.0, 1.5, 2.0, 6.0
ComplexityHalves(complexity) ==
    CASE complexity = "simple" -> 2
      [] complexity = "interface" -> 4
      [] complexity = "firewall" -> 3
      [] complexity = "config" -> 4
      [] complexity = "dangerous" -> 12

\* the health multiplier with degraded given 2x instead of 0.5x, in quarters
HealthQuarters_degradedDoubled(healthStatus) ==
    CASE healthStatus = "healthy" -> 4
      [] healthStatus = "degraded" -> 8
      [] healthStatus = "unhealthy" -> 1

\* the health multiplier, in quarters: 1, 0.5, 0.25
HealthQuarters(healthStatus) ==
    CASE healthStatus = "healthy" -> 4
      [] healthStatus = "degraded" -> 2
      [] healthStatus = "unhealthy" -> 1

\* AdaptiveTimeout.getTimeout(toolName, healthStatus, userOverride): the
\* timeout_ms of the result.  base * multiplier is held in eighths.
getTimeout(config, toolName, healthStatus, userOverride) ==
    IF userOverride # Undefined
    THEN Clamp(userOverride, config.min_timeout_ms, config.max_timeout_ms)
    ELSE IF ~config.adaptive_timeout
    THEN config.base_timeout_ms
    ELSE LET eighths == config.base_timeout_ms
                            * ComplexityHalves(classifyOperation(toolName))
                            * HealthQuarters(healthStatus)
         IN  MathRound(Clamp(eighths, 8 * config.min_timeout_ms,
                             8 * config.max_timeout_ms), 8)

\* no getTimeout() call yet
NoTimeoutResult ==
    [healthStatus |-> "healthy", userOverride |-> Undefined,
     timeout_ms |-> Undefined]

\* the configurations getTimeout() is computed for: the default one, and
\* every one with min_timeout_ms <= max_timeout_ms up to MaxMs
TimeoutConfigs ==
    {DefaultTimeoutConfig} \cup
    {c \in [base_timeout_ms : 1..MaxMs, min_timeout_ms : 0..MaxMs,
            max_timeout_ms : 0..MaxMs, adaptive_timeout : BOOLEAN] :
        c.min_timeout_ms <= c.max_timeout_ms}

\* the overrides a caller passes, or none
Overrides == {Undefined} \cup 0..(MaxMs + 1) \cup {1000, 30000, 70000}

\* the manager was built with the default configuration; nobody has asked
\* for a timeout
InitTimeoutIdle ==
    /\ tcfg = DefaultTimeoutConfig
    /\ ttool = pf_health
    /\ tres = NoTimeoutResult


\* ------------------------------------------------------------------------
\* executeTool and NeverhangManager
\* ------------------------------------------------------------------------
\* the tools called: the health tool, and one that makes one request
ExecTools == {pf_health, pf_system_info}

\* two executeTool() calls can be in flight at a time
TaskIds == {1, 2}

\* fresh: the call was admitted in the half-open period the breaker is in
IdleTask == [pc |-> "idle", tool |-> pf_health, fresh |-> FALSE]

\* what executeToolInner() ends with: no error, a plain Error, or a
\* NeverhangError of one of the types a request of PfSenseClient raises
NoError == "none"
PlainError == "Error"
RequestErrors ==
    {"timeout", "connection_failed", "api_error", "auth_failed",
     "permission_denied", "not_found"}

\* NeverhangError.retryable
Retryable(type) == type \notin {"permission_denied", "auth_failed"}

\* executeTool(): the errorType it reports for the error it caught
ErrorTypeOf(error) == IF error = PlainError THEN "api_error" ELSE error

\* flip changes at every step of executeTool(); raised is whether that step
\* ended with executeTool() throwing; timeout_ms is what getTimeout() returned
\* to a step that admitted a call, http the timeout of the request issued,
\* error the errorType a step handed to recordFailure()
NoExecStep ==
    [flip |-> FALSE, step |-> "none", raised |-> FALSE,
     timeout_ms |-> Undefined, http |-> Null, error |-> NoError]

\* the manager has counted no call and no executeTool() is running
InitExecIdle ==
    /\ tasks = [i \in TaskIds |-> IdleTask]
    /\ totalCalls = 0
    /\ successfulCalls = 0
    /\ metrics = 0
    /\ serial = FreshCircuitState
    /\ xop = NoExecStep

\* PfSenseClient.request(): the delay its abort timer is set with
RequestTimeout(timeoutMs) ==
    IF timeoutMs = Undefined \/ timeoutMs = 0 THEN DefaultRequestTimeout
    ELSE timeoutMs

\* executeToolInner(name, args, timeoutMs) up to its await: the timeout of
\* the request it issues, Null when it throws before issuing one.  pf_health
\* pings with PingRequestTimeout; the other handlers call the client without
\* a timeout argument.  pf_interface_status is called without its interface
\* argument, and a name that no case matches is an unknown tool.
InnerRequest(name, timeoutMs) ==
    CASE name = pf_health -> RequestTimeout(PingRequestTimeout)
      [] name = pf_system_info -> RequestTimeout(Undefined)
      [] name = pf_interface_status -> Null
      [] OTHER -> Null

\* the breaker, the store and the counters NeverhangManager works on
Manager ==
    [cb |-> cb, db |-> db, totalCalls |-> totalCalls,
     successfulCalls |-> successfulCalls, metrics |-> metrics]

\* NeverhangManager.recordSuccess(): counters, the breaker with its
\* persistState, then recordApiCall; a store that is down raises at the
\* first write
ManagerRecordSuccess(m, withDb, storeDown) ==
    LET r == recordSuccess(m.cb)
        m1 == [m EXCEPT !.totalCalls = @ + 1, !.successfulCalls = @ + 1,
                        !.cb = r.cb]
    IN  IF withDb /\ storeDown THEN [m |-> m1, raised |-> TRUE]
        ELSE [m |-> [m1 EXCEPT
                       !.db = IF r.persist THEN persistState(withDb, @, r.cb)
                              ELSE @,
                       !.metrics = IF withDb THEN @ + 1 ELSE @],
              raised |-> FALSE]

\* CircuitBreaker.recordFailure(excludeFromCircuit)
CircuitRecordFailure(c, t, excludeFromCircuit) ==
    IF excludeFromCircuit THEN [cb |-> c, persist |-> FALSE]
    ELSE recordFailure(c, t)

\* the manager keeping the failures that are not retryable from the breaker
ExcludeFromCircuit_nonRetryable(errorType) == ~Retryable(errorType)

\* the excludeFromCircuit argument NeverhangManager.recordFailure() passes
ExcludeFromCircuit(errorType) == FALSE

\* NeverhangManager.recordFailure(), likewise
ManagerRecordFailure(m, withDb, t, storeDown, errorType) ==
    LET r == CircuitRecordFailure(m.cb, t, ExcludeFromCircuit(errorType))
        m1 == [m EXCEPT !.totalCalls = @ + 1, !.cb = r.cb]
    IN  IF withDb /\ storeDown THEN [m |-> m1, raised |-> TRUE]
        ELSE [m |-> [m1 EXCEPT
                       !.db = IF r.persist THEN persistState(withDb, @, r.cb)
                              ELSE @,
                       !.metrics = IF withDb THEN @ + 1 ELSE @],
              raised |-> FALSE]

\* executeTool() counting a rejected call as a failed one
Rejected_counted(m, withDb, t) ==
    ManagerRecordFailure(m, withDb, t, FALSE, "circuit_open").m

\* executeTool() when canExecute() has refused: it throws circuit_open, and
\* the manager is as canExecute() left it
Rejected(m, withDb, t) == m

\* executeTool() after its await, error being what executeToolInner() ended
\* with: recordSuccess() in the try block, so that what it raises (a plain
\* Error of the store) is caught and reported by recordFailure(); raised is
\* whether executeTool() throws, error the errorType reported
Complete(m, withDb, error, t, storeDown) ==
    IF error = NoError
    THEN LET r == ManagerRecordSuccess(m, withDb, storeDown)
         IN  IF ~r.raised THEN [m |-> r.m, raised |-> FALSE, error |-> NoError]
             ELSE [m |-> ManagerRecordFailure(r.m, withDb, t, storeDown,
                                              ErrorTypeOf(PlainError)).m,
                   raised |-> TRUE, error |-> ErrorTypeOf(PlainError)]
    ELSE [m |-> ManagerRecordFailure(m, withDb, t, storeDown,
                                     ErrorTypeOf(error)).m,
          raised |-> TRUE, error |-> ErrorTypeOf(error)]

\* NeverhangManager.getUptimePercent()
getUptimePercent(total, successful) ==
    IF total = 0 THEN 100 ELSE MathRound(successful * 100, total)

\* HealthMonitor.ping(), its recordHealthCheck raising when the store is
\* down: raised by recordSuccess() inside the try block, it is caught and
\* recordFailure() runs too
PingHealth(h, withDb, ok, storeDown) ==
    IF ok /\ withDb /\ storeDown
    THEN HealthRecordFailure(HealthRecordSuccess(h))
    ELSE HealthPing(h, ok)

PingHealthMeta(m, withDb, ok, storeDown, latency, t) ==
    IF ok /\ withDb /\ storeDown
    THEN HealthStampFailure(HealthStampSuccess(m, latency, t), t)
    ELSE HealthStamp(m, ok, latency, t)

\* a tool call settling with every tool's outcome recorded by the monitor
SettleHealth_everyTool(h, name, withDb, ok, storeDown) ==
    PingHealth(h, withDb, ok, storeDown)

\* what a tool call does to the monitor when its await settles: pf_health
\* has pinged, the other tools do not touch it
SettleHealth(h, name, withDb, ok, storeDown) ==
    IF name = pf_health THEN PingHealth(h, withDb, ok, storeDown) ELSE h

\* ------------------------------------------------------------------------
\* Initial state: NeverhangManager constructs the monitor and the breaker
\* ------------------------------------------------------------------------
InitHealth ==
    /\ health = InitialHealthState
    /\ hmeta = InitialHealthMeta
    /\ loop = InitialLoop
    /\ hop = "constructor"
    /\ running = FALSE
    /\ succRun = 0
    /\ dipped = FALSE
    /\ p95 = Undefined

Init ==
    /\ InitHealth
    /\ now = 1
    /\ hasDb \in BOOLEAN
    /\ db = DefaultCircuitRecord
    /\ cb = CircuitConstructor(hasDb, db)
    /\ op = "constructor"
    /\ first = FALSE
    /\ allowed = TRUE
    /\ hoSucc = 0
    /\ lastClosedFail = Null
    /\ InitTimeoutIdle
    /\ InitExecIdle

\* ------------------------------------------------------------------------
\* Breaker specification
\* ------------------------------------------------------------------------
\* the clock advances; no code runs
Tick ==
    /\ now < MaxTime
    /\ now' = now + 1
    /\ UNCHANGED <<hasDb, cb, db, op, first, allowed, hoSucc, lastClosedFail>>
    /\ UNCHANGED besideBreaker

CanExecute ==
    LET r == canExecute(cb, now)
    IN  /\ cb' = r.cb
        /\ allowed' = r.allowed
        /\ op' = "canExecute"
        /\ first' = (op = "constructor")
        /\ hoSucc' = IF cb.state # "half-open" /\ r.cb.state = "half-open"
                     THEN 0 ELSE hoSucc
        /\ UNCHANGED <<now, hasDb, db, lastClosedFail>>
        /\ UNCHANGED besideBreaker

RecordSuccess ==
    LET r == recordSuccess(cb)
    IN  /\ cb' = r.cb
        /\ db' = IF r.persist THEN persistState(hasDb, db, r.cb) ELSE db
        /\ op' = "recordSuccess"
        /\ first' = (op = "constructor")
        /\ hoSucc' = IF cb.state = "half-open" THEN hoSucc + 1 ELSE hoSucc
        /\ UNCHANGED <<now, hasDb, allowed, lastClosedFail>>
        /\ UNCHANGED besideBreaker

RecordFailure ==
    /\ Len(cb.failures) < MaxFail
    /\ LET r == recordFailure(cb, now)
       IN  /\ cb' = r.cb
           /\ db' = IF r.persist THEN persistState(hasDb, db, r.cb) ELSE db
           /\ op' = "recordFailure"
           /\ first' = (op = "constructor")
           /\ lastClosedFail' = IF cb.state = "closed" THEN now
                               ELSE lastClosedFail
           /\ UNCHANGED <<now, hasDb, allowed, hoSucc>>
           /\ UNCHANGED besideBreaker

\* the process ends and a new one constructs its breaker from the store
Restart ==
    /\ cb' = CircuitConstructor(hasDb, db)
    /\ op' = "constructor"
    /\ first' = FALSE
    /\ UNCHANGED <<now, hasDb, db, allowed, hoSucc, lastClosedFail>>
    /\ UNCHANGED besideBreaker

Next ==
    \/ Tick
    \/ CanExecute
    \/ RecordSuccess
    \/ RecordFailure
    \/ Restart

Spec == Init /\ [][Next]_vars

\* the same, with the clock advancing up to MaxTime and callers that keep
\* calling canExecute()
SpecLive == Init /\ [][Next]_vars /\ WF_vars(Tick) /\ WF_vars(CanExecute)

\* ------------------------------------------------------------------------
\* Health monitor specification
\* ------------------------------------------------------------------------
\* NeverhangManager.start()
Start ==
    /\ loop.intervalId = Null =>
            Cardinality(loop.timers) + loop.probes < MaxLoops
    /\ loop' = startBackgroundCheck(loop)
    /\ running' = TRUE
    /\ hop' = "start"
    /\ UNCHANGED <<health, hmeta, succRun, dipped, p95>>
    /\ UNCHANGED besideHealth

\* NeverhangManager.stop()
Stop ==
    /\ loop' = stopBackgroundCheck(loop)
    /\ running' = FALSE
    /\ hop' = "stop"
    /\ UNCHANGED <<health, hmeta, succRun, dipped, p95>>
    /\ UNCHANGED besideHealth

\* a pending timer fires: check() runs up to the await of its ping
TimerFire ==
    \E t \in loop.timers :
        /\ loop' = [loop EXCEPT !.timers = @ \ {t}, !.probes = @ + 1]
        /\ hop' = "fire"
        /\ UNCHANGED <<health, hmeta, running, succRun, dipped, p95>>
        /\ UNCHANGED besideHealth

\* the effect of a settled ping that took latency ms on the counters and
\* the samples of the model
Measured(ok, latency) ==
    /\ IF ok THEN health.consecutive_successes < MaxConsec
             ELSE health.consecutive_failures < MaxConsec
    /\ health' = HealthPing(health, ok)
    /\ hmeta' = HealthStamp(hmeta, ok, latency, now)
    /\ hop' = IF ok THEN "probeSuccess" ELSE "probeFailure"
    /\ succRun' = IF ok THEN succRun + 1 ELSE 0
    /\ dipped' = (dipped \/ ~ok)
    /\ p95' = p95

\* the clock stands still in the specification of the monitor, so the
\* latency is 0
Recorded(ok) == Measured(ok, 0)

\* the ping of a background check settles; check() re-arms its timer
ProbeDone ==
    \E ok \in BOOLEAN :
        /\ loop.probes > 0
        /\ Recorded(ok)
        /\ loop' = CheckRearm(loop, HealthPing(health, ok))
        /\ UNCHANGED running
        /\ UNCHANGED besideHealth

\* a ping made by the pf_health tool settles
ToolPing ==
    \E ok \in BOOLEAN :
        /\ Recorded(ok)
        /\ UNCHANGED <<loop, running>>
        /\ UNCHANGED besideHealth

NextHealth ==
    \/ Start
    \/ Stop
    \/ TimerFire
    \/ ProbeDone
    \/ ToolPing

SpecHealth == Init /\ [][NextHealth]_vars

\* ------------------------------------------------------------------------
\* Specification of the latency window: pings that measure a latency, and
\* getLatencyP95() read between them
\* ------------------------------------------------------------------------
\* the latencies a ping measures, in ms
Latencies == {10, 20}

\* a ping settles, measured
PingMeasured ==
    \E ok \in BOOLEAN, latency \in Latencies :
        /\ Measured(ok, latency)
        /\ UNCHANGED <<loop, running>>
        /\ UNCHANGED besideHealth

\* NeverhangManager.getStats() reads getLatencyP95()
GetLatencyP95 ==
    /\ p95' = getLatencyP95(hmeta.latency_samples)
    /\ hop' = "getLatencyP95"
    /\ UNCHANGED <<health, hmeta, loop, running, succRun, dipped>>
    /\ UNCHANGED besideHealth

NextP95 ==
    \/ PingMeasured
    \/ GetLatencyP95

SpecP95 == Init /\ [][NextP95]_vars

\* ------------------------------------------------------------------------
\* Timeout specification: getTimeout() on every configuration and tool name
\* ------------------------------------------------------------------------
InitTimeout ==
    /\ InitHealth
    /\ now = 1
    /\ hasDb = TRUE
    /\ db = DefaultCircuitRecord
    /\ cb = CircuitConstructor(hasDb, db)
    /\ op = "constructor"
    /\ first = FALSE
    /\ allowed = TRUE
    /\ hoSucc = 0
    /\ lastClosedFail = Null
    /\ tcfg \in TimeoutConfigs
    /\ ttool \in ToolNames
    /\ tres = NoTimeoutResult
    /\ InitExecIdle

\* AdaptiveTimeout.getTimeout(ttool, h, ov) is called
GetTimeout ==
    \E h \in HealthStatuses, ov \in Overrides :
        /\ tres' = [healthStatus |-> h, userOverride |-> ov,
                    timeout_ms |-> getTimeout(tcfg, ttool, h, ov)]
        /\ UNCHANGED <<tcfg, ttool>>
        /\ UNCHANGED <<breakerVars, healthVars, execVars>>

NextTimeout == GetTimeout

SpecTimeout == InitTimeout /\ [][NextTimeout]_vars

\* ------------------------------------------------------------------------
\* Tool-call specification: concurrent executeTool() calls, the clock, and
\* the background probe loop
\* ------------------------------------------------------------------------
InitExec == Init /\ hasDb

\* the manager's part of the state becomes m, except that the breaker keeps
\* its state when the report comes while every other call is still in flight
SetManager_lostUpdate(m) ==
    /\ cb' = IF \A j \in TaskIds : tasks[j].pc = "inner" THEN cb ELSE m.cb
    /\ db' = m.db
    /\ totalCalls' = m.totalCalls
    /\ successfulCalls' = m.successfulCalls
    /\ metrics' = m.metrics

\* the manager's part of the state becomes m
SetManager(m) ==
    /\ cb' = m.cb
    /\ db' = m.db
    /\ totalCalls' = m.totalCalls
    /\ successfulCalls' = m.successfulCalls
    /\ metrics' = m.metrics

\* executeTool(name) runs up to the await of executeToolInner, or throws
\* circuit_open; the call takes the first task record that is free
Call(i, name) ==
    /\ tasks[i].pc = "idle"
    /\ \A j \in TaskIds : j < i => tasks[j].pc # "idle"
    /\ totalCalls < MaxCalls
    /\ LET r == canExecute(cb, now)
           m == [Manager EXCEPT !.cb = r.cb]
           timeout == getTimeout(tcfg, name, health.status, Undefined)
       IN  IF ~r.allowed
           THEN /\ SetManager(Rejected(m, hasDb, now))
                /\ serial' = canExecute(serial, now).cb
                /\ tasks' = tasks
                /\ xop' = [flip |-> ~xop.flip, step |-> "reject",
                           raised |-> TRUE, timeout_ms |-> Undefined,
                           http |-> Null, error |-> NoError]
           ELSE \* pf_health reads getStats() first, which purges the window
                /\ SetManager(IF name = pf_health
                              THEN [m EXCEPT !.cb = cleanOldFailures(@, now)]
                              ELSE m)
                /\ serial' = IF name = pf_health
                             THEN cleanOldFailures(canExecute(serial, now).cb,
                                                   now)
                             ELSE canExecute(serial, now).cb
                /\ tasks' = [tasks EXCEPT ![i] =
                               [pc |-> "inner", tool |-> name,
                                fresh |-> (r.cb.state = "half-open")]]
                /\ xop' = [flip |-> ~xop.flip, step |-> "admit",
                           raised |-> FALSE, timeout_ms |-> timeout,
                           http |-> InnerRequest(name, timeout),
                           error |-> NoError]
    /\ UNCHANGED <<now, hasDb, op, first, allowed, hoSucc, lastClosedFail>>
    /\ UNCHANGED <<healthVars, timeoutVars>>

\* the await of executeToolInner settles, result being NoError or the error
\* the handler ended with (for pf_health, which catches what its ping
\* raises, the error of the ping), and executeTool() reports the outcome,
\* the store being down or not; what a ping measured is not modelled, every
\* latency sample is 0.  A call loses its fresh mark when the half-open
\* period it was admitted in ends.
Settle(i, result, storeDown) ==
    LET task == tasks[i]
        name == task.tool
        ok == (result = NoError)
        error == IF name = pf_health THEN NoError ELSE result
        done == Complete(Manager, hasDb, error, now, storeDown)
        reports == IF done.raised THEN "failure" ELSE "success"
    IN  /\ task.pc = "inner"
        /\ IF InnerRequest(name, Undefined) = Null THEN result = PlainError
           ELSE result \in {NoError} \cup RequestErrors
        /\ reports = "failure" => Len(cb.failures) < MaxFail
        /\ name = pf_health =>
               /\ ok => health.consecutive_successes < MaxConsec
               /\ (~ok \/ storeDown) => health.consecutive_failures < MaxConsec
        /\ SetManager(done.m)
        /\ serial' = Complete([Manager EXCEPT !.cb = serial], hasDb, error,
                              now, storeDown).m.cb
        /\ health' = SettleHealth(health, name, hasDb, ok, storeDown)
        /\ hmeta' = IF name = pf_health
                    THEN PingHealthMeta(hmeta, hasDb, ok, storeDown, 0, now)
                    ELSE hmeta
        /\ tasks' = [j \in TaskIds |->
                        IF j = i THEN IdleTask
                        ELSE IF done.m.cb.state # "half-open"
                             THEN [tasks[j] EXCEPT !.fresh = FALSE]
                             ELSE tasks[j]]
        /\ xop' = [flip |-> ~xop.flip, step |-> "settle",
                   raised |-> done.raised,
                   timeout_ms |-> Undefined, http |-> Null,
                   error |-> done.error]
        /\ UNCHANGED <<now, hasDb, op, first, allowed, hoSucc, lastClosedFail>>
        /\ UNCHANGED <<loop, hop, running, succRun, dipped, p95>>
        /\ UNCHANGED timeoutVars

\* the clock advances while tool calls are in flight or between them
ExecTick == now < MaxExecTime /\ Tick

NextExec ==
    \/ ExecTick
    \/ \E i \in TaskIds, name \in ExecTools : Call(i, name)
    \/ \E i \in TaskIds, result \in {NoError, "api_error"},
          storeDown \in BOOLEAN :
           Settle(i, result, storeDown)

SpecExec == InitExec /\ [][NextExec]_vars

\* ------------------------------------------------------------------------
\* Specification of executeTool() by the error its handler ends with
\* ------------------------------------------------------------------------
\* a tool whose request can fail, one called without its required argument,
\* and a name no handler exists for
ErrTools == {pf_system_info, pf_interface_status, pf_bogus}

NextErr ==
    \/ ExecTick
    \/ \E i \in TaskIds, name \in ErrTools : Call(i, name)
    \/ \E i \in TaskIds, result \in {NoError, PlainError} \cup RequestErrors :
           Settle(i, result, FALSE)

SpecErr == InitExec /\ [][NextErr]_vars

\* ------------------------------------------------------------------------
\* Properties of the health monitor
\* ------------------------------------------------------------------------
\* the probe loops that exist: pending timers and checks waiting for a ping
Loops(l) == Cardinality(l.timers) + l.probes

\* C7: once stop() has returned, no probe timer is armed (so no further
\* probe starts) until start() is called again, whether stop() found a
\* timer pending or a probe in flight.
C7_StopStopsLoop ==
    running \/ loop.timers = {}

\* C8: start() with a loop in existence (timer pending or probe in flight)
\* creates no second loop, stop() with no loop in existence changes nothing,
\* and start();start() and stop();stop() end as start() and stop() do.
C8_StartStopIdempotent ==
    [][ /\ (hop' = "start" /\ Loops(loop) > 0) => Loops(loop') = Loops(loop)
        /\ (hop' = "stop" /\ Loops(loop) = 0) => loop' = loop
        /\ startBackgroundCheck(startBackgroundCheck(loop))
               = startBackgroundCheck(loop)
        /\ stopBackgroundCheck(stopBackgroundCheck(loop))
               = stopBackgroundCheck(loop)
      ]_vars

\* C9: no step takes the status from healthy to unhealthy or from unhealthy
\* to healthy; a probe outcome moves it to an adjacent value or not at all.
C9_NoSkippedStatus ==
    [][ /\ ~(health.status = "healthy" /\ health'.status = "unhealthy")
        /\ ~(health.status = "unhealthy" /\ health'.status = "healthy")
        /\ health'.status # health.status =>
               hop' \in {"probeSuccess", "probeFailure"}
      ]_vars

\* unhealthy reached from healthy by three failed probes in a row
C9_Witness ==
    /\ hop = "probeFailure"
    /\ health.status = "unhealthy"
    /\ health.consecutive_failures = 3

\* C10: a degraded status returns to healthy on the third successful probe
\* in a row and not before; a failed probe sets consecutiveSuccesses to zero,
\* so the count starts again.
C10_HealthyOnThirdSuccess ==
    [][ /\ (hop' = "probeSuccess" /\ health.status = "degraded") =>
               IF succRun' >= 3 THEN health'.status = "healthy"
               ELSE health'.status = "degraded"
        /\ (health.status = "healthy" /\ health'.status = "degraded") =>
               hop' = "probeFailure" /\ succRun' = 0
        /\ hop' = "probeFailure" =>
               health'.consecutive_successes = 0
        /\ health'.consecutive_successes = succRun'
      ]_vars

\* healthy again on the third success after a failed probe
C10_Witness ==
    /\ dipped
    /\ hop = "probeSuccess"
    /\ health.status = "healthy"
    /\ succRun = 3

\* ------------------------------------------------------------------------
\* Properties of the breaker
\* ------------------------------------------------------------------------
\* a step in which breaker operation o is called (the clock stands still)
Called(o) == op' = o /\ now' = now

\* failures of c whose timestamps lie inside the window ending at t
InWindow(c, t) ==
    Cardinality({i \in DOMAIN c.failures :
                    c.failures[i] > t - circuit_failure_window_ms})

\* C1: while closed, a recordFailure opens the breaker, with openedAt the
\* time of that failure, exactly when the failures inside the rolling window
\* (that one included) reach circuit_failure_threshold; a recordSuccess while
\* closed leaves the failure history as it is.
C1_OpensAtThreshold ==
    [][ /\ (Called("recordFailure") /\ cb.state = "closed") =>
             IF InWindow(cb, now) + 1 >= circuit_failure_threshold
             THEN cb'.state = "open" /\ cb'.opened_at = now
             ELSE cb'.state = "closed" /\ cb'.opened_at = cb.opened_at
        /\ (Called("recordSuccess") /\ cb.state = "closed") => cb' = cb
      ]_vars

\* the breaker has closed once and is opened again by failures at two
\* different times inside one window
C1_Witness ==
    /\ op = "recordFailure"
    /\ cb.state = "open"
    /\ cb.opened_at = now
    /\ cb.half_open_successes = circuit_recovery_threshold
    /\ Len(cb.failures) = circuit_failure_threshold
    /\ cb.failures[1] < now

\* C2: while open, canExecute() before circuit_open_duration_ms has elapsed
\* since openedAt returns false and leaves the breaker open; from then on it
\* returns true and turns the breaker half-open with halfOpenSuccesses = 0.
C2_OpenUntilDuration ==
    [][ (Called("canExecute") /\ cb.state = "open") =>
            /\ cb.opened_at # Null
            /\ IF now - cb.opened_at < circuit_open_duration_ms
               THEN allowed' = FALSE /\ cb'.state = "open"
               ELSE /\ allowed' = TRUE
                    /\ cb'.state = "half-open"
                    /\ cb'.half_open_successes = 0
      ]_vars

\* admitted exactly when the open duration has elapsed
C2_Witness ==
    /\ op = "canExecute"
    /\ allowed
    /\ cb.state = "half-open"
    /\ cb.half_open_successes = 0
    /\ now - cb.opened_at = circuit_open_duration_ms

\* C3: in half-open a single recordFailure reopens the breaker and sets
\* openedAt to the time of that failure, whatever halfOpenSuccesses is.
C3_HalfOpenFailureReopens ==
    [][ (Called("recordFailure") /\ cb.state = "half-open") =>
            cb'.state = "open" /\ cb'.opened_at = now
      ]_vars

\* reopened by a failure after one half-open success had been counted
C3_Witness ==
    /\ op = "recordFailure"
    /\ cb.state = "open"
    /\ cb.opened_at = now
    /\ cb.half_open_successes = 1
    /\ hoSucc = 1
    /\ now > circuit_open_duration_ms + 1

\* C4: in half-open the breaker closes exactly when
\* circuit_recovery_threshold successes have been recorded since it became
\* half-open; fewer leave it half-open; on closing the failure history is
\* empty and openedAt is cleared.
C4_ClosesAtRecoveryThreshold ==
    [][ /\ (Called("recordSuccess") /\ cb.state = "half-open") =>
             /\ hoSucc' <= circuit_recovery_threshold
             /\ IF hoSucc' = circuit_recovery_threshold
                THEN /\ cb'.state = "closed"
                     /\ cb'.failures = <<>>
                     /\ cb'.opened_at = Null
                ELSE cb'.state = "half-open" /\ cb'.opened_at = cb.opened_at
        /\ (cb.state = "half-open" /\ cb'.state = "closed"
                /\ op' # "constructor") =>
             op' = "recordSuccess" /\ hoSucc' = circuit_recovery_threshold
      ]_vars

\* closed by the last of the recovery successes
C4_Witness ==
    /\ op = "recordSuccess"
    /\ cb.state = "closed"
    /\ hoSucc = circuit_recovery_threshold
    /\ cb.failures = <<>>
    /\ cb.opened_at = Null
    /\ db.state = "closed"

\* C5: a breaker constructed from the store answers canExecute() and reacts
\* to the next recordSuccess / recordFailure as the running instance does.
C5_RestartRoundTrip ==
    hasDb =>
        LET fresh == CircuitConstructor(hasDb, db)
        IN  /\ canExecute(fresh, now).allowed = canExecute(cb, now).allowed
            /\ recordSuccess(fresh).cb.state = recordSuccess(cb).cb.state
            /\ recordFailure(fresh, now).cb.state
                   = recordFailure(cb, now).cb.state

\* C6: the first canExecute() of a breaker constructed from a persisted open
\* record is admitted, and turns the breaker half-open, exactly when
\* circuit_open_duration_ms has elapsed since the persisted openedAt.
C6_DowntimeCounts ==
    [][ (op = "constructor" /\ Called("canExecute") /\ hasDb
            /\ db.state = "open") =>
            IF now - db.opened_at >= circuit_open_duration_ms
            THEN allowed' = TRUE /\ cb'.state = "half-open"
            ELSE allowed' = FALSE /\ cb'.state = "open"
      ]_vars

\* first call after a restart, longer than the open duration after opening
C6_Witness ==
    /\ first
    /\ op = "canExecute"
    /\ allowed
    /\ cb.state = "half-open"
    /\ hasDb
    /\ db.state = "open"
    /\ now - db.opened_at > circuit_open_duration_ms

\* ------------------------------------------------------------------------
\* Properties of the adaptive timeout
\* ------------------------------------------------------------------------
\* getTimeout() has been called and tres holds the call
TimeoutAsked == tres.timeout_ms # Undefined

\* the timeout of a tool under a health status, no override
TimeoutOf(toolName, healthStatus) ==
    getTimeout(tcfg, toolName, healthStatus, Undefined)

\* how far a health status is from healthy
HealthRank(healthStatus) ==
    CASE healthStatus = "healthy" -> 0
      [] healthStatus = "degraded" -> 1
      [] healthStatus = "unhealthy" -> 2

\* the place of a class in the declaration of OperationComplexity
DeclaredRank(complexity) ==
    CASE complexity = "simple" -> 0
      [] complexity = "interface" -> 1
      [] complexity = "firewall" -> 2
      [] complexity = "config" -> 3
      [] complexity = "dangerous" -> 4

\* the place of a class in the order simple, firewall, interface, config,
\* dangerous
MultiplierRank(complexity) ==
    CASE complexity = "simple" -> 0
      [] complexity = "firewall" -> 1
      [] complexity = "interface" -> 2
      [] complexity = "config" -> 3
      [] complexity = "dangerous" -> 4

\* C13: for every tool name, health status, override and configuration with
\* min_timeout_ms <= max_timeout_ms, adaptive or not, getTimeout returns a
\* timeout within [min_timeout_ms, max_timeout_ms]; with an override the
\* result is the override clamped to that range, whatever the tool name and
\* the health status.
C13_TimeoutWithinBounds ==
    TimeoutAsked =>
        /\ tres.timeout_ms >= tcfg.min_timeout_ms
        /\ tres.timeout_ms <= tcfg.max_timeout_ms
        /\ tres.userOverride # Undefined =>
               /\ tres.timeout_ms =
                      IF tres.userOverride < tcfg.min_timeout_ms
                      THEN tcfg.min_timeout_ms
                      ELSE IF tres.userOverride > tcfg.max_timeout_ms
                      THEN tcfg.max_timeout_ms
                      ELSE tres.userOverride
               /\ \A n \in ToolNames, h \in HealthStatuses :
                      getTimeout(tcfg, n, h, tres.userOverride)
                          = tres.timeout_ms

\* C14: for a fixed tool name and configuration and no override, the timeout
\* does not grow as health degrades: timeout(healthy) >= timeout(degraded)
\* >= timeout(unhealthy).
C14_MonotoneInHealth ==
    (TimeoutAsked /\ tres.userOverride = Undefined) =>
        \A h \in HealthStatuses :
            /\ HealthRank(h) <= HealthRank(tres.healthStatus) =>
                   TimeoutOf(ttool, h) >= tres.timeout_ms
            /\ HealthRank(h) >= HealthRank(tres.healthStatus) =>
                   TimeoutOf(ttool, h) <= tres.timeout_ms

\* a degraded timeout strictly between the healthy and the unhealthy one
C14_Witness ==
    /\ TimeoutAsked
    /\ tres.userOverride = Undefined
    /\ tres.healthStatus = "degraded"
    /\ TimeoutOf(ttool, "healthy") > tres.timeout_ms
    /\ tres.timeout_ms > TimeoutOf(ttool, "unhealthy")

\* C15 as stated: for a fixed health status and configuration and no
\* override, the timeout does not shrink as the complexity class escalates
\* through simple, interface, firewall, config, dangerous.
C15_MonotoneInDeclaredOrder ==
    (TimeoutAsked /\ tres.userOverride = Undefined) =>
        \A n \in ToolNames :
            /\ DeclaredRank(classifyOperation(n))
                   <= DeclaredRank(classifyOperation(ttool)) =>
                   TimeoutOf(n, tres.healthStatus) <= tres.timeout_ms
            /\ DeclaredRank(classifyOperation(n))
                   >= DeclaredRank(classifyOperation(ttool)) =>
                   TimeoutOf(n, tres.healthStatus) >= tres.timeout_ms

\* C15 amended: for a fixed health status and configuration and no override,
\* the timeout does not shrink as the complexity class escalates through
\* simple, firewall, interface, config, dangerous.
C15_MonotoneInMultiplierOrder ==
    (TimeoutAsked /\ tres.userOverride = Undefined) =>
        \A n \in ToolNames :
            /\ MultiplierRank(classifyOperation(n))
                   <= MultiplierRank(classifyOperation(ttool)) =>
                   TimeoutOf(n, tres.healthStatus) <= tres.timeout_ms
            /\ MultiplierRank(classifyOperation(n))
                   >= MultiplierRank(classifyOperation(ttool)) =>
                   TimeoutOf(n, tres.healthStatus) >= tres.timeout_ms

\* a firewall timeout strictly between the simple and the interface one,
\* and the dangerous one above them
C15_Witness ==
    /\ TimeoutAsked
    /\ tres.userOverride = Undefined
    /\ classifyOperation(ttool) = "firewall"
    /\ TimeoutOf(pf_system_info, tres.healthStatus) < tres.timeout_ms
    /\ tres.timeout_ms < TimeoutOf(pf_interface_restart, tres.healthStatus)
    /\ TimeoutOf(pf_interface_restart, tres.healthStatus)
           = TimeoutOf(pf_dhcp_config, tres.healthStatus)
    /\ TimeoutOf(pf_dhcp_config, tres.healthStatus)
           < TimeoutOf(pf_system_reboot, tres.healthStatus)

\* ------------------------------------------------------------------------
\* Properties of the failure window
\* ------------------------------------------------------------------------
\* C19: with circuit_failure_threshold >= 2, a failure recorded on a closed
\* breaker more than circuit_failure_window_ms after the previous one
\* recorded while closed (or with none before it) leaves an in-window count
\* of 1 and the breaker closed: failures spaced that far never accumulate.
C19_SpacedFailuresNeverAccumulate ==
    [][ ( /\ Called("recordFailure")
          /\ cb.state = "closed"
          /\ circuit_failure_threshold >= 2
          /\ \/ lastClosedFail = Null
             \/ now - lastClosedFail > circuit_failure_window_ms ) =>
            /\ Len(cb'.failures) = 1
            /\ InWindow(cb', now) = 1
            /\ cb'.state = "closed"
      ]_vars

\* a second failure, recorded past the window of the first, counted alone
C19_Witness ==
    /\ op = "recordFailure"
    /\ cb.state = "closed"
    /\ lastClosedFail = now
    /\ Len(cb.failures) = 1
    /\ now > circuit_failure_window_ms + 1
    /\ db = DefaultCircuitRecord

\* ------------------------------------------------------------------------
\* Properties of executeTool
\* ------------------------------------------------------------------------
\* a step of executeTool() of the given kind
ExecStep(kind) == xop'.flip # xop.flip /\ xop'.step = kind

\* the step in which the await of call i settles
Settling(i) == tasks[i].pc = "inner" /\ tasks'[i].pc = "idle"

\* C11: when canExecute() refuses, executeTool raises circuit_open before
\* any remote call: executeToolInner is not entered, no request is issued,
\* nothing is reported, so the counters, the store and the breaker (state,
\* openedAt, halfOpenSuccesses, in-window failures) are as before; and a call
\* is admitted only when the breaker is not inside its open period.
C11_RejectedBeforeAnyCall ==
    [][ /\ ExecStep("reject") =>
               /\ cb.state = "open"
               /\ xop'.raised
               /\ xop'.http = Null
               /\ tasks' = tasks
               /\ totalCalls' = totalCalls
               /\ successfulCalls' = successfulCalls
               /\ metrics' = metrics
               /\ db' = db
               /\ cb'.state = cb.state
               /\ cb'.opened_at = cb.opened_at
               /\ cb'.half_open_successes = cb.half_open_successes
               /\ Len(cb'.failures) <= Len(cb.failures)
               /\ InWindow(cb', now) = InWindow(cb, now)
        /\ ExecStep("admit") =>
               ~( /\ cb.state = "open"
                  /\ now - cb.opened_at < circuit_open_duration_ms )
      ]_vars

\* a call refused after the failures that opened the breaker, not counted
C11_Witness ==
    /\ xop.step = "reject"
    /\ cb.state = "open"
    /\ totalCalls = circuit_failure_threshold
    /\ successfulCalls = 0

\* C12: when the store is down as a call's outcome is reported, nothing is
\* raised by the report (executeTool throws exactly when the tool failed),
\* the call is counted once, and the breaker and the monitor make the one
\* transition of that outcome.
C12_StoreFailureSwallowed ==
    [][ \A i \in TaskIds :
            (ExecStep("settle") /\ Settling(i) /\ metrics' = metrics) =>
                LET reported == successfulCalls' > successfulCalls
                IN  /\ xop'.raised = ~reported
                    /\ totalCalls' = totalCalls + 1
                    /\ cb' = IF reported THEN recordSuccess(cb).cb
                             ELSE recordFailure(cb, now).cb
                    /\ tasks[i].tool = pf_health =>
                           \/ health' = HealthRecordSuccess(health)
                           \/ health' = HealthRecordFailure(health)
      ]_vars

\* C16: the request issued for an admitted call has the timeout that
\* getTimeout() returned for that call.
C16_RequestTimeoutIsAdaptive ==
    (xop.step = "admit" /\ xop.http # Null) => xop.http = xop.timeout_ms

\* C17: the report of a call's outcome by Manager.recordSuccess or
\* Manager.recordFailure leaves the monitor as it was: status, consecutive
\* counters, timestamps, latency samples and the probe loop.
C17_ManagerLeavesHealthAlone ==
    [][ \A i \in TaskIds :
            ( /\ ExecStep("settle")
              /\ Settling(i)
              /\ tasks[i].tool # pf_health ) =>
                /\ totalCalls' > totalCalls
                /\ health' = health
                /\ hmeta' = hmeta
                /\ loop' = loop
      ]_vars

\* an outcome reported at a time later than the monitor's last check, the
\* monitor being degraded or unhealthy
C17_Witness ==
    /\ xop.step = "settle"
    /\ health.status # "healthy"
    /\ hmeta.last_check # Null
    /\ hmeta.last_check < now
    /\ totalCalls >= 2
    /\ Len(cb.failures) >= 1

\* C18: no step of a tool call, pf_health included, changes the monitor's
\* status, consecutive counters, timestamps or latency samples.
C18_HealthOnlyByProbes ==
    [][ (health' # health \/ hmeta' # hmeta) => xop'.flip = xop.flip ]_vars

C22_FailureWhileOpenIgnored ==
    [][ (Called("recordFailure") /\ cb.state = "open") =>
            /\ Len(cb'.failures) <= Len(cb.failures)
            /\ InWindow(cb', now) <= InWindow(cb, now)
            /\ cb'.state = "open"
            /\ cb'.opened_at = cb.opened_at
      ]_vars

\* C23: right after canExecute() has moved the breaker from open to
\* half-open the failure set is empty, even when the failures that opened
\* the circuit are still inside the window.
C23_HalfOpenStartsEmpty ==
    [][ (Called("canExecute") /\ cb.state = "open"
           /\ cb'.state = "half-open") =>
            cb'.failures = <<>>
      ]_vars

\* C27: with a store attached the persisted state is never half_open; it is
\* the in-memory state when that is closed or open, and open with the same
\* openedAt when that is half-open; a restart during half-open yields an
\* open breaker, whose next half-open period counts successes from 0.
C27_HalfOpenNeverPersisted ==
    /\ [](hasDb =>
            /\ db.state # "half_open"
            /\ cb.state \in {"closed", "open"} => db.state = cb.state
            /\ cb.state = "half-open" =>
                   /\ db.state = "open"
                   /\ db.opened_at = cb.opened_at)
    /\ [][ (hasDb /\ op' = "constructor" /\ cb.state = "half-open") =>
               /\ cb'.state = "open"
               /\ cb'.opened_at = cb.opened_at
               /\ \A t \in now..MaxTime :
                      canExecute(cb', t).allowed =>
                          canExecute(cb', t).cb.half_open_successes = 0
         ]_vars

\* restarted during a half-open period in which one success was counted:
\* the breaker is open again and the count is gone
C27_Witness ==
    /\ hasDb
    /\ op = "constructor"
    /\ cb.state = "open"
    /\ hoSucc = 1
    /\ cb.half_open_successes = 0
    /\ db.state = "open"

\* C30: an open breaker always has openedAt set, so canExecute() at any time
\* >= openedAt + circuit_open_duration_ms is admitted; with callers that
\* keep calling canExecute(), an open breaker whose open period ends within
\* the time modelled becomes half-open (unless the process ends first and a
\* new one without a store constructs a fresh, closed breaker).
C30_NeverStuckOpen ==
    /\ [](cb.state = "open" =>
            /\ cb.opened_at # Null
            /\ \A t \in now..(MaxTime + circuit_open_duration_ms) :
                   t >= cb.opened_at + circuit_open_duration_ms =>
                       /\ canExecute(cb, t).allowed
                       /\ canExecute(cb, t).cb.state = "half-open")
    /\ (cb.state = "open"
          /\ cb.opened_at + circuit_open_duration_ms <= MaxTime)
           ~> (cb.state = "half-open" \/ (~hasDb /\ op = "constructor"))

\* a breaker loaded open from the record persistState wrote, admitted by
\* its first canExecute() once the open period was over
C30_Witness ==
    /\ hasDb
    /\ op = "canExecute"
    /\ first
    /\ allowed
    /\ cb.state = "half-open"
    /\ db.state = "open"
    /\ now >= db.opened_at + circuit_open_duration_ms

\* ------------------------------------------------------------------------
\* Properties of the background loop
\* ------------------------------------------------------------------------
\* C24: the loop re-arms its timer only when its probe has completed, so no
\* two loop-driven probes are in flight together, and the timer armed after
\* a probe has the delay of the status that probe left:
\* health_check_interval_ms when healthy, health_degraded_interval_ms when
\* degraded or unhealthy.
C24_RearmAfterProbe ==
    /\ [](loop.probes <= 1)
    /\ [][ /\ hop' = "fire" => loop'.timers \subseteq loop.timers
           /\ (hop' \in {"probeSuccess", "probeFailure"}
                 /\ loop'.probes < loop.probes) =>
                  \E t \in loop'.timers \ loop.timers :
                      /\ loop'.timers = loop.timers \cup {t}
                      /\ loop'.intervalId = t.id
                      /\ t.delay = IF health'.status = "healthy"
                                   THEN health_check_interval_ms
                                   ELSE health_degraded_interval_ms
         ]_vars

\* C25: in every reachable state at most one probe loop exists: at most one
\* probe timer armed or loop-driven probe in flight.
C25_AtMostOneLoop ==
    Loops(loop) <= 1

\* ------------------------------------------------------------------------
\* Properties of executeTool() and the breaker together
\* ------------------------------------------------------------------------
\* C26: a success reported during half-open by a call that was admitted
\* before the current half-open period began (while the breaker was closed,
\* or in an earlier half-open period) does not count toward recovery: it
\* leaves half_open_successes as it was and does not close the breaker, so
\* that closing takes circuit_recovery_threshold successes of calls admitted
\* in the current half-open period.
C26_RecoveryByFreshCalls ==
    [][ \A i \in TaskIds :
           (Settling(i) /\ cb.state = "half-open" /\ ~tasks[i].fresh
              /\ ~xop'.raised) =>
               /\ cb'.half_open_successes = cb.half_open_successes
               /\ cb'.state = "half-open"
      ]_vars

\* C28: every step in which an admitted call completes adds exactly one to
\* totalCalls (one of recordSuccess / recordFailure ran, once) and no other
\* step changes the counters, so totalCalls is the number of admitted calls
\* completed; successfulCalls <= totalCalls, and getUptimePercent() is
\* within 0..100, 100 when no call was recorded.
C28_OneReportPerCall ==
    /\ [][ /\ ExecStep("settle") =>
                /\ totalCalls' = totalCalls + 1
                /\ successfulCalls' =
                       successfulCalls + (IF xop'.raised THEN 0 ELSE 1)
           /\ ~ExecStep("settle") =>
                /\ totalCalls' = totalCalls
                /\ successfulCalls' = successfulCalls
         ]_vars
    /\ [](/\ successfulCalls <= totalCalls
          /\ getUptimePercent(totalCalls, successfulCalls) \in 0..100
          /\ totalCalls = 0 =>
                 getUptimePercent(totalCalls, successfulCalls) = 100)

\* C29: whatever executeToolInner() throws is recorded as a circuit failure:
\* the step in which a call ends with an error (a plain Error raised before
\* any request, or a NeverhangError of any type, retryable or not) appends
\* the current time to the failure list, and with circuit_failure_threshold
\* failures in the window a closed breaker opens, after which canExecute()
\* refuses every tool.
C29_EveryErrorCounts ==
    [][ \A i \in TaskIds :
           (Settling(i) /\ xop'.raised) =>
               /\ cb' = recordFailure(cb, now).cb
               /\ Len(cb'.failures) = InWindow(cb, now) + 1
               /\ cb'.failures[Len(cb'.failures)] = now
               /\ (cb.state = "closed"
                     /\ InWindow(cb, now) + 1 >= circuit_failure_threshold) =>
                      /\ cb'.state = "open"
                      /\ ~canExecute(cb', now).allowed
      ]_vars

\* the breaker opened by a non-retryable error, the last of
\* circuit_failure_threshold errors
C29_Witness ==
    /\ xop.step = "settle"
    /\ xop.raised
    /\ ~Retryable(xop.error)
    /\ cb.state = "open"
    /\ cb.opened_at = now
    /\ Len(cb.failures) = circuit_failure_threshold

\* ------------------------------------------------------------------------
\* Properties of the latency window
\* ------------------------------------------------------------------------
\* the k-th smallest of the samples, k = ceil(pct * n / 100), found by
\* counting and without sorting
NearestRank(samples, pct) ==
    LET n == Len(samples)
        k == (pct * n + 99) \div 100
        values == {samples[i] : i \in 1..n}
        atMost(v) == Cardinality({i \in 1..n : samples[i] <= v})
    IN  CHOOSE v \in values :
            /\ atMost(v) >= k
            /\ \A u \in values : atMost(u) >= k => v <= u

\* C21: for a window of n samples, 1 <= n <= 10, getLatencyP95 returns the
\* element at index min(floor(0.95 n), n - 1) of the samples in ascending
\* order, which is the nearest-rank 95th percentile (the ceil(0.95 n)-th
\* smallest sample); for an empty window it returns 0; and a window never
\* holds more than 10 samples.
C21_P95NearestRank ==
    LET w == hmeta.latency_samples
        n == Len(w)
    IN  /\ n <= MaxSamples
        /\ hop = "getLatencyP95" =>
              /\ n = 0 => p95 = 0
              /\ n >= 1 =>
                    /\ p95 = SortAscending(w)[Min((95 * n) \div 100, n - 1) + 1]
                    /\ p95 = NearestRank(w, 95)
                    /\ \A i \in 1..(n - 1) :
                           SortAscending(w)[i] <= SortAscending(w)[i + 1]

\* read on a full window whose latest sample is not the largest
C21_Witness ==
    /\ hop = "getLatencyP95"
    /\ Len(hmeta.latency_samples) = MaxSamples
    /\ hmeta.latency_samples[MaxSamples] = 10
    /\ hmeta.latency_samples[1] = 10
    /\ p95 = 20
====
